---- MODULE Spec2Model ----
(***************************************************************************)
(* Model of the Firebase Cloud Function proxy (src/index.js).              *)
(*                                                                         *)
(* Strings that the code only compares are TLA+ strings.  Strings that the *)
(* code searches or cuts (header names, the content-type header) are       *)
(* sequences of tokens, so that startsWith, replace and includes are       *)
(* computed.  A comma-separated configuration string is the sequence of    *)
(* its comma-free pieces (the empty string is the one-piece sequence       *)
(* <<"">>).  A JavaScript object is a function from its own keys.          *)
(***************************************************************************)
EXTENDS Integers, Sequences, FiniteSets, TLC

\* ------------------------------------------------------------------ bounds
NReq == 2          \* request slots the platform may run concurrently
MaxHeaders == 2    \* inbound headers of a request besides x-api-key

Reqs == 1..NReq

\* ------------------------------------------------- JavaScript value helpers
undefined == "<undefined>"
null == "<null>"

\* a value that is falsy in a condition: undefined, null or the empty string
Falsy(v) == v \in {undefined, null, ""}

\* a || b
Nullish(a, b) == IF a \in {undefined, null} THEN b ELSE a
Or(a, b) == IF Falsy(a) THEN b ELSE a

EmptyObj == [k \in {} |-> ""]

\* obj[k]
Get(obj, k) == IF k \in DOMAIN obj THEN obj[k] ELSE undefined

\* obj[k] = v on an object literal {}: the key __proto__ is the inherited
\* accessor of Object.prototype, whose setter ignores a string; no own
\* property is created.  Any other key becomes (or overwrites) an own property.
ObjSetPlain(obj, k, v) == [x \in (DOMAIN obj) \cup {k} |-> IF x = k THEN v ELSE obj[x]]
ObjSet(obj, k, v) ==
    IF k = <<"__proto__">> THEN obj
    ELSE [x \in (DOMAIN obj) \cup {k} |-> IF x = k THEN v ELSE obj[x]]

\* ------------------------------------------------------------ constants
ERRORS == [INVALID_API_KEY |-> "Invalid API key",
           URL_REQUIRED |-> "URL required",
           DOMAIN_NOT_ALLOWED |-> "Domain not allowed",
           INVALID_URL_FORMAT |-> "Invalid URL format",
           PROXY_REQUEST_FAILED |-> "Proxy request failed"]

PREFIX == "x-target-"
X_API_KEY == <<"x-api-key">>

\* ---------------------------------------------------------- input domains
SECRET == "test-key-123"
GoodUrl == "https://httpbin.org/get"
EvilUrl == "https://evil.com/x"
BadUrl == "not a url"

\* functions.config().proxy: apikey and domains as deployed
RawKeys == {undefined, "", SECRET}
NoDomains == <<undefined>>   \* proxy.domains not set
RawDomains == {NoDomains, <<"">>, <<"httpbin.org", "jsonplaceholder.typicode.com">>}

ProvidedKeys == {undefined, "", SECRET, "TEST-KEY-123"}
QueryUrls == {undefined, "", BadUrl, GoodUrl, EvilUrl}
BodyUrls == {undefined, BadUrl, GoodUrl, EvilUrl}
QueryBodies == {undefined, "", "q-payload"}
BodyBodies == {undefined, "b-payload"}
Methods == {"GET", "POST"}

HeaderPool == {<<PREFIX, "authtoken">>, <<PREFIX, PREFIX, "a">>,
               <<"accept-", PREFIX, "b">>, <<PREFIX, "__proto__">>}
HeaderValues == {"abc123", "tok2"}

ExtraHeaders == UNION {[D -> HeaderValues] :
                        D \in {S \in SUBSET HeaderPool : Cardinality(S) <= MaxHeaders}}

WithKey(h, k) == IF k = undefined THEN h ELSE ObjSetPlain(h, X_API_KEY, k)

Requests == {[method |-> m, headers |-> WithKey(h, k),
              query |-> [url |-> qu, body |-> qb],
              body |-> [url |-> bu, body |-> bb]] :
                m \in Methods, h \in ExtraHeaders, k \in ProvidedKeys,
                qu \in QueryUrls, bu \in BodyUrls,
                qb \in QueryBodies, bb \in BodyBodies}

NoRequest == [method |-> undefined, headers |-> EmptyObj,
              query |-> [url |-> undefined, body |-> undefined],
              body |-> [url |-> undefined, body |-> undefined]]

\* upstream responses: status, headers, body text, and whether the body
\* stream can be read to its end
JsonCT == <<"application/json">>
Upstreams == [status : {200, 404, 503},
              headers : {EmptyObj,
                         [h \in {"content-type"} |-> <<"text/plain">>],
                         [h \in {"content-type"} |-> JsonCT],
                         [h \in {"content-type"} |-> JsonCT \o <<"; charset=utf-8">>]},
              text : {"{\"a\":1}", "hello"},
              readable : BOOLEAN]

\* the two mocked upstreams of the round-trip tests
MockedUpstreams ==
    {[status |-> 200, headers |-> [h \in {"content-type"} |-> JsonCT],
      text |-> "{\"a\":1}", readable |-> TRUE],
     [status |-> 404, headers |-> EmptyObj, text |-> "hello", readable |-> TRUE]}

NoUpstream == [status |-> 0, headers |-> EmptyObj, text |-> "", readable |-> FALSE]
NoData == [t |-> "undefined", v |-> ""]

\* ------------------------------------------------------------------ state
VARIABLES
    config,           \* functions.config().proxy as deployed
    API_KEY,          \* module constant, set at load
    ALLOWED_DOMAINS,  \* module constant, set at load
    upstreams,        \* which target servers are reachable: "any" or "mocked"
    req,              \* the inbound request of each slot
    pc,               \* where each invocation of the handler stands
    url, body, headers, response, data,   \* the handler's locals
    calls,            \* fetch calls issued, per request
    sent              \* responses written to res, per request

vars == <<config, API_KEY, ALLOWED_DOMAINS, upstreams, req, pc,
          url, body, headers, response, data, calls, sent>>

UpstreamResponses == IF upstreams = "any" THEN Upstreams ELSE MockedUpstreams

\* ------------------------------------------------------- module load
LoadApiKey(proxy) == Or(proxy.apikey, null)

\* domains?.split(',') || []
LoadAllowedDomains(proxy) ==
    IF proxy.domains = NoDomains THEN <<>> ELSE proxy.domains

Includes(arr, x) == \E i \in 1..Len(arr) : arr[i] = x

\* ------------------------------------------------------- validateUrl
\* new URL(url): throws unless url is an absolute URL
NewURL(u) ==
    CASE u = GoodUrl -> [ok |-> TRUE, hostname |-> "httpbin.org"]
      [] u = EvilUrl -> [ok |-> TRUE, hostname |-> "evil.com"]
      [] OTHER -> [ok |-> FALSE, hostname |-> ""]

validateUrlSwapped(u) ==
    IF Falsy(u) THEN [valid |-> FALSE, error |-> ERRORS.INVALID_URL_FORMAT]
    ELSE IF ~NewURL(u).ok THEN [valid |-> FALSE, error |-> ERRORS.URL_REQUIRED]
    ELSE IF ~Includes(ALLOWED_DOMAINS, NewURL(u).hostname)
         THEN [valid |-> FALSE, error |-> ERRORS.DOMAIN_NOT_ALLOWED]
    ELSE [valid |-> TRUE, error |-> ""]
validateUrl(u) ==
    IF Falsy(u) THEN [valid |-> FALSE, error |-> ERRORS.URL_REQUIRED]
    ELSE IF ~NewURL(u).ok THEN [valid |-> FALSE, error |-> ERRORS.INVALID_URL_FORMAT]
    ELSE IF ~Includes(ALLOWED_DOMAINS, NewURL(u).hostname)
         THEN [valid |-> FALSE, error |-> ERRORS.DOMAIN_NOT_ALLOWED]
    ELSE [valid |-> TRUE, error |-> ""]

\* ------------------------------------------------- parseResponseData
\* JSON.parse of the body texts the upstreams send
JsonParse(text) ==
    IF text = "{\"a\":1}" THEN [ok |-> TRUE, value |-> [t |-> "object", v |-> "a=1"]]
    ELSE [ok |-> FALSE, value |-> NoData]

\* contentType?.includes('application/json')
IsJsonExact(resp) ==
    /\ "content-type" \in DOMAIN resp.headers
    /\ resp.headers["content-type"] = JsonCT
IsJson(resp) ==
    /\ "content-type" \in DOMAIN resp.headers
    /\ Includes(resp.headers["content-type"], "application/json")

\* the settled value of parseResponseData(response): ok = FALSE is a rejection
parseResponseDataLenient(resp) ==
    IF ~resp.readable THEN [ok |-> FALSE, value |-> NoData]
    ELSE IF IsJson(resp) /\ JsonParse(resp.text).ok THEN JsonParse(resp.text)
    ELSE [ok |-> TRUE, value |-> [t |-> "string", v |-> resp.text]]
parseResponseData(resp) ==
    IF ~resp.readable THEN [ok |-> FALSE, value |-> NoData]
    ELSE IF IsJson(resp) THEN JsonParse(resp.text)
    ELSE [ok |-> TRUE, value |-> [t |-> "string", v |-> resp.text]]

\* ------------------------------------------------- header forwarding
StartsWith(key, p) == Len(key) >= 1 /\ key[1] = p

\* key.replace(p, ''): the first occurrence of p is removed
Replace(key, p) ==
    LET at == {i \in 1..Len(key) : key[i] = p}
    IN  IF at = {} THEN key
        ELSE LET i == CHOOSE j \in at : \A k \in at : j <= k
             IN  SubSeq(key, 1, i - 1) \o SubSeq(key, i + 1, Len(key))

\* the body of the forEach callback
ForwardHeader(acc, key, value) ==
    IF StartsWith(key, PREFIX) THEN ObjSet(acc, Replace(key, PREFIX), value) ELSE acc

RECURSIVE ForEachKey(_, _, _)
ForEachKey(keys, src, acc) ==
    IF keys = {} THEN acc
    ELSE LET k == CHOOSE x \in keys : TRUE
         IN  ForEachKey(keys \ {k}, src, ForwardHeader(acc, k, src[k]))

\* const headers = {}
SharedHeaders(r) ==
    LET others == {o \in Reqs \ {r} : DOMAIN headers[o] # {}}
    IN  IF others = {} THEN EmptyObj ELSE headers[CHOOSE o \in others : TRUE]
NewHeaders(r) == EmptyObj

\* ------------------------------------------------------- responses
Json(code, payload) == [code |-> code, json |-> payload]
ErrorBody(msg) == [error |-> msg]

\* the handler's return after an error response; stage is where it would
\* otherwise go on
NoReturn(stage) == stage
Return(stage) == "done"

\* !API_KEY || req.headers['x-api-key'] !== API_KEY
RejectsPresenceOnly(provided) == Falsy(API_KEY) \/ provided = undefined
RejectsFailOpen(provided) == ~Falsy(API_KEY) /\ provided # API_KEY
Rejects(provided) == Falsy(API_KEY) \/ provided # API_KEY

\* the catch block
Catch(cause) == Json(500, ErrorBody(ERRORS.PROXY_REQUEST_FAILED))

\* ------------------------------------------------------------ the handler
Send(r, resp) == sent' = [sent EXCEPT ![r] = Append(@, resp)]

\* lines 72-75
Authenticate(r) ==
    /\ pc[r] = "auth"
    /\ IF Rejects(Get(req[r].headers, X_API_KEY))
       THEN /\ Send(r, Json(401, ErrorBody(ERRORS.INVALID_API_KEY)))
            /\ pc' = [pc EXCEPT ![r] = Return("validate")]
       ELSE /\ pc' = [pc EXCEPT ![r] = "validate"]
            /\ UNCHANGED sent
    /\ UNCHANGED <<config, API_KEY, ALLOWED_DOMAINS, upstreams, req,
                   url, body, headers, response, data, calls>>

\* lines 77-86
ValidateTarget(r) ==
    /\ pc[r] = "validate"
    /\ url' = [url EXCEPT ![r] = Or(req[r].query.url, req[r].body.url)]
    /\ body' = [body EXCEPT ![r] = Or(req[r].query.body, req[r].body.body)]
    /\ headers' = [headers EXCEPT ![r] = NewHeaders(r)]
    /\ LET urlValidation == validateUrl(url'[r])
       IN  IF ~urlValidation.valid
           THEN /\ Send(r, Json(400, ErrorBody(urlValidation.error)))
                /\ pc' = [pc EXCEPT ![r] = Return("translate")]
           ELSE /\ pc' = [pc EXCEPT ![r] = "translate"]
                /\ UNCHANGED sent
    /\ UNCHANGED <<config, API_KEY, ALLOWED_DOMAINS, upstreams, req,
                   response, data, calls>>

\* lines 88-93
TranslateHeaders(r) ==
    /\ pc[r] = "translate"
    /\ headers' = [headers EXCEPT ![r] =
                      ForEachKey(DOMAIN req[r].headers, req[r].headers, @)]
    /\ pc' = [pc EXCEPT ![r] = "forward"]
    /\ UNCHANGED <<config, API_KEY, ALLOWED_DOMAINS, upstreams, req,
                   url, body, response, data, calls, sent>>

\* lines 95-100: the call of fetch
Forward(r) ==
    /\ pc[r] = "forward"
    /\ calls' = [calls EXCEPT ![r] = Append(@, [url |-> url[r],
                                                 method |-> req[r].method,
                                                 headers |-> headers[r],
                                                 body |-> body[r]])]
    /\ pc' = [pc EXCEPT ![r] = "awaitFetch"]
    /\ UNCHANGED <<config, API_KEY, ALLOWED_DOMAINS, upstreams, req,
                   url, body, headers, response, data, sent>>

\* line 96: the awaited promise fulfils with the upstream's response
FetchResolve(r) ==
    /\ pc[r] = "awaitFetch"
    /\ \E u \in UpstreamResponses : response' = [response EXCEPT ![r] = u]
    /\ pc' = [pc EXCEPT ![r] = "awaitBody"]
    /\ UNCHANGED <<config, API_KEY, ALLOWED_DOMAINS, upstreams, req,
                   url, body, headers, data, calls, sent>>

\* line 96: the awaited promise rejects; lines 111-113
FetchReject(r) ==
    /\ pc[r] = "awaitFetch"
    /\ Send(r, Catch("request to upstream failed"))
    /\ pc' = [pc EXCEPT ![r] = "done"]
    /\ UNCHANGED <<config, API_KEY, ALLOWED_DOMAINS, upstreams, req,
                   url, body, headers, response, data, calls>>

\* line 103: the awaited body read settles; lines 111-113 when it rejects
ParseResponseData(r) ==
    /\ pc[r] = "awaitBody"
    /\ LET parsed == parseResponseData(response[r])
       IN  IF parsed.ok
           THEN /\ data' = [data EXCEPT ![r] = parsed.value]
                /\ pc' = [pc EXCEPT ![r] = "respond"]
                /\ UNCHANGED sent
           ELSE /\ Send(r, Catch("invalid body"))
                /\ pc' = [pc EXCEPT ![r] = "done"]
                /\ UNCHANGED data
    /\ UNCHANGED <<config, API_KEY, ALLOWED_DOMAINS, upstreams, req,
                   url, body, headers, response, calls>>

\* lines 105-109
Respond(r) ==
    /\ pc[r] = "respond"
    /\ Send(r, Json(200, [status |-> response[r].status, data |-> data[r]]))
    /\ pc' = [pc EXCEPT ![r] = "done"]
    /\ UNCHANGED <<config, API_KEY, ALLOWED_DOMAINS, upstreams, req,
                   url, body, headers, response, data, calls>>

\* ------------------------------------------------------- specifications
Locals ==
    /\ url = [r \in Reqs |-> undefined]
    /\ body = [r \in Reqs |-> undefined]
    /\ headers = [r \in Reqs |-> EmptyObj]
    /\ response = [r \in Reqs |-> NoUpstream]
    /\ data = [r \in Reqs |-> NoData]
    /\ calls = [r \in Reqs |-> <<>>]
    /\ sent = [r \in Reqs |-> <<>>]

Load ==
    /\ API_KEY = LoadApiKey(config)
    /\ ALLOWED_DOMAINS = LoadAllowedDomains(config)

\* one request, any deployed configuration, any upstream
Init ==
    /\ config \in [apikey : RawKeys, domains : RawDomains]
    /\ Load
    /\ upstreams = "any"
    /\ \E q \in Requests : req = [r \in Reqs |-> IF r = 1 THEN q ELSE NoRequest]
    /\ pc = [r \in Reqs |-> IF r = 1 THEN "auth" ELSE "idle"]
    /\ Locals

Next ==
    \E r \in Reqs :
        \/ Authenticate(r)
        \/ ValidateTarget(r)
        \/ TranslateHeaders(r)
        \/ Forward(r)
        \/ FetchResolve(r)
        \/ FetchReject(r)
        \/ ParseResponseData(r)
        \/ Respond(r)

Spec == Init /\ [][Next]_vars

\* several requests in flight against one deployed configuration
Tagged(s, r) == s \o "-" \o ToString(r)

ConcRequests(r) ==
    {[method |-> "POST", headers |-> WithKey(h, k),
      query |-> [url |-> undefined, body |-> undefined],
      body |-> [url |-> u, body |-> Tagged("payload", r)]] :
        h \in {EmptyObj, [x \in {<<PREFIX, "authtoken">>} |-> Tagged("tok", r)]},
        k \in {SECRET, Tagged("key", r)},
        u \in {GoodUrl, EvilUrl}}

InitConc ==
    /\ config = [apikey |-> SECRET,
                 domains |-> <<"httpbin.org", "jsonplaceholder.typicode.com">>]
    /\ Load
    /\ upstreams = "mocked"
    /\ req \in {f \in [Reqs -> UNION {ConcRequests(r) : r \in Reqs}] :
                  \A r \in Reqs : f[r] \in ConcRequests(r)}
    /\ pc = [r \in Reqs |-> "auth"]
    /\ Locals

\* steps the event loop runs as soon as they are ready
Local(r) ==
    \/ Authenticate(r)
    \/ ValidateTarget(r)
    \/ TranslateHeaders(r)
    \/ Forward(r)
    \/ Respond(r)

\* steps that wait for the upstream
Network(r) ==
    \/ FetchResolve(r)
    \/ FetchReject(r)
    \/ ParseResponseData(r)

\* the request whose upstream may stay silent for ever
Stalled == CHOOSE r \in Reqs : \A o \in Reqs : r <= o

ConcSpec ==
    /\ InitConc
    /\ [][Next]_vars
    /\ \A r \in Reqs : WF_vars(Local(r))
    /\ \A r \in Reqs \ {Stalled} : WF_vars(Network(r))

\* ================================================================ claims
Provided(r) == Get(req[r].headers, X_API_KEY)
Authenticated(r) == API_KEY # null /\ Provided(r) = API_KEY
Finished(r) == pc[r] = "done"
PastValidation(r) == pc[r] \in {"translate", "forward", "awaitFetch", "awaitBody", "respond"}
                     \/ (pc[r] = "done" /\ url[r] # undefined)
Unauthorized == [code |-> 401, json |-> [error |-> "Invalid API key"]]
Failed == [code |-> 500, json |-> [error |-> "Proxy request failed"]]
BadRequest(msg) == [code |-> 400, json |-> [error |-> msg]]
ContainsJson(resp) ==
    /\ DOMAIN resp.headers = {"content-type"}
    /\ \E i \in DOMAIN resp.headers["content-type"] :
          resp.headers["content-type"][i] = "application/json"
Values(obj) == {obj[k] : k \in DOMAIN obj}

\* C1: a request whose x-api-key header is missing or differs from the
\* configured secret is answered 401 {"error": "Invalid API key"} whatever its
\* URL, body and other headers are, and no later stage runs: the target is
\* never resolved or validated, no header is translated, no outbound call is
\* made.
C1_WrongKeyRejected ==
    \A r \in Reqs :
        (pc[r] # "idle" /\ (Provided(r) = undefined \/ Provided(r) # API_KEY)) =>
            /\ pc[r] \in {"auth", "done"}
            /\ Finished(r) => sent[r] = <<Unauthorized>>
            /\ calls[r] = <<>>
            /\ url[r] = undefined /\ body[r] = undefined /\ headers[r] = EmptyObj

C1_Witness ==
    \E r \in Reqs :
        /\ Finished(r) /\ API_KEY = SECRET /\ Provided(r) = "TEST-KEY-123"
        /\ req[r].query.url = BadUrl /\ req[r].body.url = GoodUrl
        /\ DOMAIN req[r].headers # {X_API_KEY}
        /\ sent[r] = <<Unauthorized>>

\* C2: fail closed.  When the deployed configuration has no secret (apikey not
\* set, or set to the empty string) every request is answered 401, whatever
\* its headers are (no x-api-key, an empty one, any value), and no outbound
\* call is ever made.
C2_FailClosed ==
    config.apikey \in {undefined, ""} =>
        \A r \in Reqs :
            /\ calls[r] = <<>>
            /\ pc[r] \in {"idle", "auth", "done"}
            /\ Finished(r) => sent[r] = <<Unauthorized>>

C2_Witness ==
    \E r \in Reqs :
        /\ config.apikey = "" /\ Provided(r) = ""
        /\ req[r].query.url = GoodUrl
        /\ Finished(r) /\ sent[r] = <<Unauthorized>>

\* C3 (as claimed): an authenticated request whose target URL parses but whose
\* hostname is not in the allowed hosts is answered 403
\* {"error": "Domain not allowed"}, and no outbound call is made.
C3_ForbiddenHost403 ==
    \A r \in Reqs :
        (/\ Finished(r) /\ Authenticated(r)
         /\ url[r] \in {GoodUrl, EvilUrl}
         /\ ~(\E i \in DOMAIN ALLOWED_DOMAINS :
                ALLOWED_DOMAINS[i] = (IF url[r] = GoodUrl THEN "httpbin.org" ELSE "evil.com")))
        => /\ sent[r] = <<[code |-> 403, json |-> [error |-> "Domain not allowed"]]>>
           /\ calls[r] = <<>>

\* C4: for an authenticated request, a target URL that is absent or empty in
\* both the query and the body is answered 400 "URL required", and a target
\* URL that does not parse as an absolute URL is answered 400 "Invalid URL
\* format"; neither case makes an outbound call, and neither is reported
\* under another error.
C4_TargetErrorsClassified ==
    \A r \in Reqs :
        (Finished(r) /\ Authenticated(r)) =>
            /\ (req[r].query.url \in {undefined, ""} /\ req[r].body.url \in {undefined, ""})
                  => (sent[r] = <<BadRequest("URL required")>> /\ calls[r] = <<>>)
            /\ url[r] = BadUrl
                  => (sent[r] = <<BadRequest("Invalid URL format")>> /\ calls[r] = <<>>)

C4_Witness ==
    \E r \in Reqs :
        /\ Finished(r) /\ Authenticated(r)
        /\ req[r].query.url = "" /\ req[r].body.url = BadUrl
        /\ ALLOWED_DOMAINS = <<>>
        /\ sent[r] = <<BadRequest("Invalid URL format")>>

\* C5 (as claimed): the outbound header set holds exactly one entry
\* <name>: value for each inbound key x-target-<name>, the prefix stripped
\* once from the front and the value unchanged, and nothing else.
C5_HeadersTranslated ==
    \A r \in Reqs :
        \A i \in DOMAIN calls[r] :
            LET inbound == req[r].headers
                marked == {k \in DOMAIN inbound : Len(k) > 1 /\ Head(k) = "x-target-"}
            IN  /\ DOMAIN calls[r][i].headers = {Tail(k) : k \in marked}
                /\ \A k \in marked : calls[r][i].headers[Tail(k)] = inbound[k]

\* C6: when the outbound call completes and its body decodes, the proxy
\* answers HTTP 200 with {status, data}: status is the upstream status as
\* received (4xx and 5xx included), data is the JSON-decoded body when the
\* upstream content-type contains application/json and the body text otherwise
\* (also when there is no content-type).
C6_EnvelopePassThrough ==
    \A r \in Reqs :
        LET up == response[r]
            decodes == up.readable /\ (ContainsJson(up) => up.text = "{\"a\":1}")
            expected == IF ContainsJson(up) THEN [t |-> "object", v |-> "a=1"]
                        ELSE [t |-> "string", v |-> up.text]
        IN  (Finished(r) /\ Len(calls[r]) = 1 /\ up # NoUpstream /\ decodes) =>
                sent[r] = <<[code |-> 200,
                             json |-> [status |-> up.status, data |-> expected]]>>

C6_Witness ==
    \E r \in Reqs :
        /\ Finished(r) /\ Len(calls[r]) = 1
        /\ response[r].status = 503
        /\ response[r].headers = [h \in {"content-type"} |->
                                     <<"application/json", "; charset=utf-8">>]
        /\ sent[r] = <<[code |-> 200,
                        json |-> [status |-> 503, data |-> [t |-> "object", v |-> "a=1"]]]>>

\* C7: once validation has passed, a failure (the outbound call rejects, the
\* body cannot be read, or a body labelled application/json does not decode)
\* is answered with exactly HTTP 500 {"error": "Proxy request failed"}: no
\* sub-cause, no partial envelope, never a 200.
C7_FailuresCollapseTo500 ==
    \A r \in Reqs :
        LET up == response[r]
            failed == \/ up = NoUpstream
                      \/ ~up.readable
                      \/ (ContainsJson(up) /\ up.text # "{\"a\":1}")
        IN  (Finished(r) /\ Len(calls[r]) >= 1 /\ failed) => sent[r] = <<Failed>>

C7_Witness ==
    \E r \in Reqs :
        /\ Finished(r) /\ Len(calls[r]) = 1
        /\ response[r].readable /\ ContainsJson(response[r]) /\ response[r].text = "hello"
        /\ sent[r] = <<Failed>>

\* C8 (as claimed): whenever a value is supplied as a query parameter, the
\* empty string included, it is the one validated and forwarded; the body
\* field is used only when the query parameter is not supplied.
C8_QueryAlwaysWins ==
    \A r \in Reqs :
        LET wantUrl == IF req[r].query.url # undefined THEN req[r].query.url
                       ELSE req[r].body.url
            wantBody == IF req[r].query.body # undefined THEN req[r].query.body
                        ELSE req[r].body.body
        IN  /\ PastValidation(r) => (url[r] = wantUrl /\ body[r] = wantBody)
            /\ \A i \in DOMAIN calls[r] :
                  calls[r][i].url = wantUrl /\ calls[r][i].body = wantBody

\* C8 (amended): a query parameter that is supplied and not empty is the value
\* validated and forwarded; the body field is used when the query parameter is
\* not supplied or is the empty string.
C8_NonEmptyQueryWins ==
    \A r \in Reqs :
        LET wantUrl == IF req[r].query.url \notin {undefined, ""} THEN req[r].query.url
                       ELSE req[r].body.url
            wantBody == IF req[r].query.body \notin {undefined, ""} THEN req[r].query.body
                        ELSE req[r].body.body
        IN  /\ PastValidation(r) => (url[r] = wantUrl /\ body[r] = wantBody)
            /\ \A i \in DOMAIN calls[r] :
                  calls[r][i].url = wantUrl /\ calls[r][i].body = wantBody

C8_Witness ==
    \E r \in Reqs :
        /\ req[r].query.url = "" /\ req[r].body.url = GoodUrl
        /\ req[r].query.body = "q-payload" /\ req[r].body.body = "b-payload"
        /\ Len(calls[r]) = 1
        /\ calls[r][1].url = GoodUrl /\ calls[r][1].body = "q-payload"

\* the stages of a request, in order
C9_Order == <<"auth", "validate", "translate", "forward", "awaitFetch", "awaitBody", "respond">>

C9_Inv ==
    \A r \in Reqs :
        /\ Len(calls[r]) <= 1
        /\ Len(calls[r]) = 1 =>
              /\ Authenticated(r)
              /\ calls[r][1].url = GoodUrl
              /\ \E i \in DOMAIN ALLOWED_DOMAINS : ALLOWED_DOMAINS[i] = "httpbin.org"
              /\ pc[r] \in {"awaitFetch", "awaitBody", "respond", "done"}
        /\ Len(sent[r]) <= 1
        /\ Finished(r) <=> Len(sent[r]) = 1

C9_Step ==
    \A r \in Reqs :
        pc'[r] # pc[r] =>
            \/ \E i \in 1..(Len(C9_Order) - 1) : pc[r] = C9_Order[i] /\ pc'[r] = C9_Order[i + 1]
            \/ /\ pc[r] \in {C9_Order[i] : i \in DOMAIN C9_Order}
               /\ pc'[r] = "done"
               /\ Len(sent'[r]) = Len(sent[r]) + 1

\* C9: the pipeline of a request is linear and loop-free.  Its stages run in
\* the order Authenticate, ValidateTarget, TranslateHeaders, Forward, Respond;
\* every step goes to the next stage or ends the request with a response; at
\* most one outbound call is issued, and only after authentication and target
\* validation succeeded; a request has ended exactly when it has been sent
\* its one response.
C9_LinearPipeline == []C9_Inv /\ [][C9_Step]_vars

C9_Witness ==
    \E r \in Reqs :
        /\ Finished(r) /\ Len(calls[r]) = 1 /\ Len(sent[r]) = 1
        /\ sent[r][1].code = 200

\* the parts of C10
C10_ConfigFrozen ==
    /\ config' = config
    /\ API_KEY' = API_KEY
    /\ ALLOWED_DOMAINS' = ALLOWED_DOMAINS

C10_Isolated ==
    \A r \in Reqs :
        \A i \in DOMAIN calls[r] :
            /\ calls[r][i].url \in {req[r].query.url, req[r].body.url}
            /\ calls[r][i].body \in {req[r].query.body, req[r].body.body}
            /\ calls[r][i].method = req[r].method
            /\ Values(calls[r][i].headers) \subseteq Values(req[r].headers)

C10_Determined ==
    \A r1, r2 \in Reqs :
        (/\ Finished(r1) /\ Finished(r2)
         /\ Provided(r1) = Provided(r2)
         /\ req[r1].query.url = req[r2].query.url
         /\ req[r1].body.url = req[r2].body.url
         /\ Len(calls[r1]) = Len(calls[r2])
         /\ response[r1] = response[r2]) => sent[r1] = sent[r2]

\* C10: requests in flight together are independent.  The configuration is
\* never modified after load; the URL, payload and header values of a
\* request's outbound call all come from that request; two requests with the
\* same key, the same target and the same upstream outcome get the same
\* response; and every request whose own upstream answers is sent its
\* response, also while another request's upstream stays silent.
C10_Independent ==
    /\ [][C10_ConfigFrozen]_vars
    /\ [](C10_Isolated /\ C10_Determined)
    /\ \A r \in Reqs \ {Stalled} : <>(Len(sent[r]) = 1)

C10_Witness ==
    \E r \in Reqs \ {Stalled} :
        /\ pc[Stalled] = "awaitFetch"
        /\ Finished(r) /\ Len(calls[r]) = 1
        /\ sent[r][1].code = 200
        /\ calls[r][1].headers # EmptyObj
        /\ calls[Stalled][1].headers # EmptyObj
        /\ calls[r][1].headers # calls[Stalled][1].headers
====
